---- MODULE Spec2Model ----
(***************************************************************************)
(* Model of the structured-field codec of httpsig/go-sf: the recursive     *)
(* descent parser of parse.go and the value model with its encoder.        *)
(*                                                                         *)
(* Conventions.  A byte is a one-character string; a Go string or []byte   *)
(* is a sequence of bytes.  Cursor positions are 0-based as in the source, *)
(* so input[pos] of the source is At(input, pos).  A Go pointer or         *)
(* interface value is a sequence of length 0 (nil) or 1.  An int64 is a    *)
(* sign and a decimal magnitude (Int64 below), because the values of the   *)
(* program exceed the integers of the model checker.                       *)
(***************************************************************************)
EXTENDS Integers, Sequences, FiniteSets, TLC

\* ------------------------------------------------------------------------
\* Bytes
\* ------------------------------------------------------------------------

\* The grave accent (code 96), which the string syntax of TLA+ cannot write.
GRAVE == "grave"

\* The printable ASCII characters in code order, from the space (32) to the
\* tilde (126).
AsciiTable ==
 <<
    " ", "!", "\"", "#", "$", "%", "&", "'", "(", ")", "*", "+", ",", "-", ".", "/",
    "0", "1", "2", "3", "4", "5", "6", "7", "8", "9", ":", ";", "<", "=", ">", "?",
    "@", "A", "B", "C", "D", "E", "F", "G", "H", "I", "J", "K", "L", "M", "N", "O",
    "P", "Q", "R", "S", "T", "U", "V", "W", "X", "Y", "Z", "[", "\\", "]", "^", "_",
    GRAVE, "a", "b", "c", "d", "e", "f", "g", "h", "i", "j", "k", "l", "m", "n", "o",
    "p", "q", "r", "s", "t", "u", "v", "w", "x", "y", "z", "{", "|", "}", "~"
 >>

\* The one byte outside the printable range that inputs may contain.
TAB == "\t"

Bytes == {AsciiTable[i] : i \in 1..Len(AsciiTable)} \cup {TAB}

\* The code of a byte.
Ord == [c \in Bytes |-> IF c = TAB THEN 9
                        ELSE 31 + (CHOOSE i \in 1..Len(AsciiTable) : AsciiTable[i] = c)]

Chr(n) == IF n = 9 THEN TAB ELSE AsciiTable[n - 31]

\* len(input) and input[pos]
len(input) == Len(input)
At(input, pos) == input[pos + 1]

\* ------------------------------------------------------------------------
\* Errors
\* ------------------------------------------------------------------------
ErrNone == "nil"
ErrUnexpectedEOL == "sf: unexpected EOL"
ErrUnrecognized == "sf: unrecognized char"
ErrTooManyDigits == "sf: too many digits"
\* the run-time panic of an index expression out of range
ErrPanic == "panic: index out of range"

Errors == {ErrUnexpectedEOL, ErrUnrecognized, ErrTooManyDigits}

\* ------------------------------------------------------------------------
\* Lexical classifiers
\* ------------------------------------------------------------------------
isPrint(b) == Ord[" "] <= Ord[b] /\ Ord[b] <= Ord["~"]
isDigit(b) == Ord["0"] <= Ord[b] /\ Ord[b] <= Ord["9"]
isUpper(b) == Ord["A"] <= Ord[b] /\ Ord[b] <= Ord["Z"]
isLower(b) == Ord["a"] <= Ord[b] /\ Ord[b] <= Ord["z"]
isAlpha(b) == isLower(b) \/ isUpper(b)
isKeyChar(b) ==
  IF isLower(b) \/ isDigit(b) THEN TRUE
  ELSE b \in {"_", "-", ".", "*"}
isTokenChar(b) ==
  IF isAlpha(b) \/ isDigit(b) THEN TRUE
  ELSE b \in {"!", "#", "$", "%", "&", "'", "*", "+", "-",
              ".", "^", "_", GRAVE, "|", "~", ":", "/"}
isBase64Char(b) ==
  IF isAlpha(b) \/ isDigit(b) THEN TRUE
  ELSE b \in {"+", "/", "="}

RECURSIVE skipSpaces(_, _)
skipSpaces(input, pos) ==
  IF pos < len(input) /\ At(input, pos) = " "
  THEN skipSpaces(input, pos + 1)
  ELSE pos

\* ------------------------------------------------------------------------
\* int64 values: a sign and a magnitude written in decimal digits without
\* leading zeros; zero is [neg |-> FALSE, mag |-> <<0>>].
\* ------------------------------------------------------------------------
RECURSIVE StripZeros(_)
StripZeros(ds) ==
  IF Len(ds) > 1 /\ ds[1] = 0 THEN StripZeros(Tail(ds)) ELSE ds

\* the int64 of a sign and a magnitude without leading zeros
Norm64(neg, m) == [neg |-> neg /\ m # <<0>>, mag |-> m]
Mk64(neg, ds) == Norm64(neg, StripZeros(IF ds = <<>> THEN <<0>> ELSE ds))

Zero64 == Mk64(FALSE, <<0>>)

\* the least int64, -2^63, the one value whose negation is not an int64
MinInt64 == [neg |-> TRUE, mag |-> <<9,2,2,3,3,7,2,0,3,6,8,5,4,7,7,5,8,0,8>>]
MaxInt64 == [neg |-> FALSE, mag |-> <<9,2,2,3,3,7,2,0,3,6,8,5,4,7,7,5,8,0,7>>]

RECURSIVE NatDigits(_)
NatDigits(n) == IF n < 10 THEN <<n>> ELSE Append(NatDigits(n \div 10), n % 10)

\* the int64 of a small integer of the model
ToInt64(i) == IF i < 0 THEN Mk64(TRUE, NatDigits(0 - i)) ELSE Mk64(FALSE, NatDigits(i))

RECURSIVE DigitsVal(_)
DigitsVal(ds) == IF ds = <<>> THEN 0 ELSE 10 * DigitsVal(SubSeq(ds, 1, Len(ds) - 1)) + ds[Len(ds)]

\* -d in int64 arithmetic: wraps at the least value
Neg64(d) == IF d = MinInt64 THEN d ELSE Mk64(~d.neg, d.mag)

\* sign * n for sign in {1, -1}
MulSign64(sign, n) == IF sign = -1 THEN Neg64(n) ELSE n

\* n * 10^k (no overflow for the at most 15 digits the parser passes)
Zeros(k) == [i \in 1..k |-> 0]
MulPow10(n, k) == Mk64(n.neg, n.mag \o Zeros(k))

\* d / 1000 and d % 1000, truncated towards zero as in Go
Div1000(d) == Mk64(d.neg, SubSeq(d.mag, 1, Len(d.mag) - 3))
Signed(neg, r) == IF neg THEN 0 - r ELSE r
Mod1000(d) ==
  Signed(d.neg, DigitsVal(SubSeq(d.mag, IF Len(d.mag) > 3 THEN Len(d.mag) - 2 ELSE 1, Len(d.mag))))

DigitChar(n) == Chr(Ord["0"] + n)
DigitOf(b) == Ord[b] - Ord["0"]

\* strconv.FormatInt(n, 10), also the %d verb of fmt
FormatInt(n) ==
  (IF n.neg THEN <<"-">> ELSE <<>>) \o [i \in 1..Len(n.mag) |-> DigitChar(n.mag[i])]

\* strconv.ParseInt(s, 10, 64) on a string of at most 15 digits
ParseInt(s) == Mk64(FALSE, [i \in 1..Len(s) |-> DigitOf(s[i])])

\* ------------------------------------------------------------------------
\* Library conversions the codec calls
\* ------------------------------------------------------------------------
RECURSIVE Concat(_)
Concat(ss) == IF ss = <<>> THEN <<>> ELSE Head(ss) \o Concat(Tail(ss))

\* strings.Join(ss, sep)
RECURSIVE Join(_, _)
Join(ss, sep) ==
  IF ss = <<>> THEN <<>>
  ELSE IF Len(ss) = 1 THEN ss[1]
  ELSE ss[1] \o sep \o Join(Tail(ss), sep)

\* strconv.QuoteToASCII(s) for strings over Bytes
QuoteByte(c) ==
  IF c = "\"" THEN <<"\\", "\"">>
  ELSE IF c = "\\" THEN <<"\\", "\\">>
  ELSE IF c = TAB THEN <<"\\", "t">>
  ELSE <<c>>
QuoteToASCII(s) ==
  <<"\"">> \o Concat([i \in 1..Len(s) |-> QuoteByte(s[i])]) \o <<"\"">>

\* strconv.Unquote(q) for a double-quoted q: the unquoted string and whether
\* q was well formed.  Only the escapes \" \\ and \t have a value in Bytes.
RECURSIVE UnquoteBody(_, _)
UnquoteBody(body, acc) ==
  IF body = <<>> THEN [s |-> acc, ok |-> TRUE]
  ELSE IF body[1] = "\"" THEN [s |-> <<>>, ok |-> FALSE]
  ELSE IF body[1] = "\\" THEN
    IF Len(body) < 2 THEN [s |-> <<>>, ok |-> FALSE]
    ELSE IF body[2] = "\"" THEN UnquoteBody(SubSeq(body, 3, Len(body)), Append(acc, "\""))
    ELSE IF body[2] = "\\" THEN UnquoteBody(SubSeq(body, 3, Len(body)), Append(acc, "\\"))
    ELSE IF body[2] = "t" THEN UnquoteBody(SubSeq(body, 3, Len(body)), Append(acc, TAB))
    ELSE [s |-> <<>>, ok |-> FALSE]
  ELSE UnquoteBody(Tail(body), Append(acc, body[1]))
Unquote(q) ==
  IF Len(q) < 2 \/ q[1] # "\"" \/ q[Len(q)] # "\"" THEN [s |-> <<>>, ok |-> FALSE]
  ELSE UnquoteBody(SubSeq(q, 2, Len(q) - 1), <<>>)

\* The alphabet of base64.StdEncoding; a character's value is its index - 1.
B64Table ==
 <<
    "A", "B", "C", "D", "E", "F", "G", "H", "I", "J", "K", "L", "M", "N", "O", "P",
    "Q", "R", "S", "T", "U", "V", "W", "X", "Y", "Z", "a", "b", "c", "d", "e", "f",
    "g", "h", "i", "j", "k", "l", "m", "n", "o", "p", "q", "r", "s", "t", "u", "v",
    "w", "x", "y", "z", "0", "1", "2", "3", "4", "5", "6", "7", "8", "9", "+", "/"
 >>
B64Chars == {B64Table[i] : i \in 1..64}
B64Val == [c \in B64Chars |-> (CHOOSE i \in 1..64 : B64Table[i] = c) - 1]

\* base64.StdEncoding.EncodeToString(bs); a byte is an integer in 0..255
RECURSIVE EncodeToString(_)
EncodeToString(bs) ==
  IF bs = <<>> THEN <<>>
  ELSE IF Len(bs) = 1 THEN
    <<B64Table[(bs[1] \div 4) + 1], B64Table[((bs[1] % 4) * 16) + 1], "=", "=">>
  ELSE IF Len(bs) = 2 THEN
    <<B64Table[(bs[1] \div 4) + 1],
      B64Table[((bs[1] % 4) * 16 + (bs[2] \div 16)) + 1],
      B64Table[((bs[2] % 16) * 4) + 1], "=">>
  ELSE
    <<B64Table[(bs[1] \div 4) + 1],
      B64Table[((bs[1] % 4) * 16 + (bs[2] \div 16)) + 1],
      B64Table[((bs[2] % 16) * 4 + (bs[3] \div 64)) + 1],
      B64Table[(bs[3] % 64) + 1]>> \o EncodeToString(SubSeq(bs, 4, Len(bs)))

\* One quantum of the decoder: up to four characters from src[si:].  The
\* result is the new index, the six-bit values read, the number dlen of
\* characters that carry data, whether the input is corrupt (err) and
\* whether the quantum yields no bytes (none).
RECURSIVE decodeQuantumLoop(_, _, _, _)
decodeQuantumLoop(src, si, j, dbuf) ==
  IF j = 4 THEN [si |-> si, dbuf |-> dbuf, dlen |-> 4, err |-> FALSE, none |-> FALSE]
  ELSE IF len(src) = si THEN
    [si |-> si, dbuf |-> dbuf, dlen |-> 0, err |-> (j # 0), none |-> TRUE]
  ELSE
    IF At(src, si) \in B64Chars
      THEN decodeQuantumLoop(src, si + 1, j + 1, Append(dbuf, B64Val[At(src, si)]))
    ELSE IF At(src, si) # "=" \/ j < 2 THEN
      [si |-> si + 1, dbuf |-> dbuf, dlen |-> 0, err |-> TRUE, none |-> TRUE]
    ELSE IF j = 2 THEN
      IF si + 1 = len(src) \/ At(src, si + 1) # "=" THEN
        [si |-> si + 1, dbuf |-> dbuf, dlen |-> 0, err |-> TRUE, none |-> TRUE]
      ELSE
        [si |-> si + 2, dbuf |-> dbuf, dlen |-> 2, err |-> (si + 2 < len(src)), none |-> FALSE]
    ELSE
      [si |-> si + 1, dbuf |-> dbuf, dlen |-> 3, err |-> (si + 1 < len(src)), none |-> FALSE]

\* the three bytes of four six-bit values
quantumVal(d) == d[1] * 262144 + d[2] * 4096 + d[3] * 64 + d[4]
quantumOut(val) == <<val \div 65536, (val \div 256) % 256, val % 256>>
quantumBytes(q) ==
  [si |-> q.si, err |-> q.err,
   bytes |-> IF q.none THEN <<>>
             ELSE SubSeq(quantumOut(quantumVal(q.dbuf \o Zeros(4 - Len(q.dbuf)))), 1, q.dlen - 1)]
decodeQuantum(src, si) == quantumBytes(decodeQuantumLoop(src, si, 0, <<>>))

\* base64.StdEncoding.DecodeString(s): the bytes decoded before the first
\* error, and whether there was one
RECURSIVE decodeLoop(_, _, _)
RECURSIVE decodeAfterQuantum(_, _, _)
decodeAfterQuantum(src, acc, q) ==
  IF q.err THEN [bytes |-> acc \o q.bytes, ok |-> FALSE]
  ELSE decodeLoop(src, q.si, acc \o q.bytes)
decodeLoop(src, si, acc) ==
  IF si < len(src) THEN decodeAfterQuantum(src, acc, decodeQuantum(src, si))
  ELSE [bytes |-> acc, ok |-> TRUE]
DecodeString(s) == decodeLoop(s, 0, <<>>)

\* ------------------------------------------------------------------------
\* Value model.  The variants of a union are records of one shape, told
\* apart by a tag, with the fields the variant does not use at a default.
\* ------------------------------------------------------------------------
Integer(n) == [t |-> "Integer", n |-> n, s |-> <<>>, y |-> <<>>, b |-> FALSE]
Decimal(n) == [t |-> "Decimal", n |-> n, s |-> <<>>, y |-> <<>>, b |-> FALSE]
String(s)  == [t |-> "String", n |-> Zero64, s |-> s, y |-> <<>>, b |-> FALSE]
Token(s)   == [t |-> "Token", n |-> Zero64, s |-> s, y |-> <<>>, b |-> FALSE]
ByteSeq(y) == [t |-> "ByteSeq", n |-> Zero64, s |-> <<>>, y |-> y, b |-> FALSE]
Bool(b)    == [t |-> "Bool", n |-> Zero64, s |-> <<>>, y |-> <<>>, b |-> b]

Param(k, v) == [Key |-> k, Value |-> v]
Pair(k, v) == [Key |-> k, Value |-> v]
Item(bare, params) ==
  [k |-> "Item", Bare |-> bare, Params |-> params, Items |-> <<>>]
InnerList(items, params) ==
  [k |-> "InnerList", Bare |-> Bool(FALSE), Params |-> params, Items |-> items]

\* ------------------------------------------------------------------------
\* Encoder
\* ------------------------------------------------------------------------
IntegerEncode(i) == FormatInt(i)

remTrailZeros(d) ==
  LET last == len(d) - 1 IN
  IF At(d, last) = "0" THEN
    LET nextToLast == len(d) - 2 IN
    IF At(d, nextToLast) = "0" THEN SubSeq(d, 1, nextToLast)
    ELSE SubSeq(d, 1, last)
  ELSE d

\* decimalSwitch that does not pad the fractional part with zeros
decimalSwitchMutNoPad(sign, ip, fracPart, fp) ==
  IF fracPart = 0 THEN sign \o ip \o <<".", "0">>
  ELSE remTrailZeros(sign \o ip \o <<".">> \o fp)

\* the switch of Decimal.Encode; ip and fp are intPart and fracPart as %d
\* writes them
decimalSwitch(sign, ip, fracPart, fp) ==
  IF fracPart = 0 THEN sign \o ip \o <<".", "0">>
  ELSE IF fracPart < 10 THEN remTrailZeros(sign \o ip \o <<".", "0", "0">> \o fp)
  ELSE IF fracPart < 100 THEN remTrailZeros(sign \o ip \o <<".", "0">> \o fp)
  ELSE remTrailZeros(sign \o ip \o <<".">> \o fp)

decimalParts(sign, intPart, fracPart) ==
  decimalSwitch(sign, FormatInt(intPart), fracPart, FormatInt(ToInt64(fracPart)))

\* Decimal.Encode after the sign is taken off: d is d0 or -d0
decimalAfterSign(sign, d) == decimalParts(sign, Div1000(d), Mod1000(d))

DecimalEncode(d) ==
  IF d.neg THEN decimalAfterSign(<<"-">>, Neg64(d))
  ELSE decimalAfterSign(<<>>, d)

StringEncode(s) == QuoteToASCII(s)
TokenEncode(s) == s
ByteSeqEncode(bs) == <<":">> \o EncodeToString(bs) \o <<":">>
BoolEncode(b) == IF b THEN <<"?", "1">> ELSE <<"?", "0">>

\* BareItem.Encode, dispatched on the dynamic type
BareItemEncode(v) ==
  CASE v.t = "Integer" -> IntegerEncode(v.n)
    [] v.t = "Decimal" -> DecimalEncode(v.n)
    [] v.t = "String" -> StringEncode(v.s)
    [] v.t = "Token" -> TokenEncode(v.s)
    [] v.t = "ByteSeq" -> ByteSeqEncode(v.y)
    [] v.t = "Bool" -> BoolEncode(v.b)

ParamEncode(p) ==
  IF p.Value.t = "Bool" /\ p.Value.b THEN p.Key
  ELSE p.Key \o <<"=">> \o BareItemEncode(p.Value)

ParamListEncode(l) ==
  IF len(l) = 0 THEN <<>>
  ELSE <<";">> \o Join([i \in 1..Len(l) |-> ParamEncode(l[i])], <<";">>)

ItemEncode(i) == BareItemEncode(i.Bare) \o ParamListEncode(i.Params)

InnerListEncode(i) ==
  IF len(i.Items) = 0 THEN <<"(", ")">> \o ParamListEncode(i.Params)
  ELSE <<"(">> \o Join([n \in 1..Len(i.Items) |-> ItemEncode(i.Items[n])], <<" ">>)
       \o <<")">> \o ParamListEncode(i.Params)

\* Member.Encode, dispatched on the dynamic type
MemberEncode(m) == IF m.k = "InnerList" THEN InnerListEncode(m) ELSE ItemEncode(m)

PairEncode(p) ==
  IF p.Value.k = "Item" /\ p.Value.Bare.t = "Bool" /\ p.Value.Bare.b
  THEN p.Key \o ParamListEncode(p.Value.Params)
  ELSE p.Key \o <<"=">> \o MemberEncode(p.Value)

ListEncode(l) ==
  IF len(l) = 0 THEN <<>>
  ELSE Join([i \in 1..Len(l) |-> MemberEncode(l[i])], <<",", " ">>)

DictEncode(d) ==
  IF len(d) = 0 THEN <<>>
  ELSE Join([i \in 1..Len(d) |-> PairEncode(d[i])], <<",", " ">>)

\* ------------------------------------------------------------------------
\* Dict and ParamList
\* ------------------------------------------------------------------------
HasKey(d, k) == \E i \in 1..Len(d) : d[i].Key = k
First(d, k) == CHOOSE i \in 1..Len(d) : d[i].Key = k /\ \A j \in 1..(i - 1) : d[j].Key # k

\* The loop variable p of the range loop is a copy of the element, so the
\* assignment p.Value = v changes the copy and d is returned as it was.
\* the mutant that appends without looking for the key
DictAddMutAppend(d, k, v) == Append(d, Pair(k, v))

DictAdd(d, k, v) ==
  IF HasKey(d, k) THEN d
  ELSE Append(d, Pair(k, v))

\* nil is the empty sequence, a member m is <<m>>
DictGet(d, k) ==
  IF HasKey(d, k) THEN <<d[First(d, k)].Value>> ELSE <<>>

ParamListAdd(l, k, v) ==
  IF HasKey(l, k) THEN l
  ELSE Append(l, Param(k, v))

ParamListGet(l, k) ==
  IF HasKey(l, k) THEN <<l[First(l, k)].Value>> ELSE <<>>

\* ------------------------------------------------------------------------
\* Parser.  A sub-parser returns R(value, pos, err); a nil pointer or
\* interface value is <<>> and a value v behind one is <<v>>.  The
\* statements that follow a call are an operator of their own, which takes
\* the result of the call as a parameter.
\* ------------------------------------------------------------------------
R(val, pos, err) == [val |-> val, pos |-> pos, err |-> err]

\* the mutant that lets one digit more through
MaxDigitsMutOneMore == 15 + 1

\* the digit budget of parseNumber
MaxDigits == 15
MaxDecimalPlaces == 3

\* the for loop of parseNumber; sb is the strings.Builder
RECURSIVE numberLoop(_, _, _, _)
numberLoop(input, pos, sb, decimalPlaces) ==
  IF pos < len(input) THEN
    IF isDigit(At(input, pos)) THEN
      IF Len(sb) = MaxDigits
        THEN [pos |-> pos, sb |-> sb, decimalPlaces |-> decimalPlaces, err |-> ErrTooManyDigits]
      ELSE IF decimalPlaces >= 0 THEN
        IF decimalPlaces = MaxDecimalPlaces
          THEN [pos |-> pos, sb |-> sb, decimalPlaces |-> decimalPlaces, err |-> ErrTooManyDigits]
        ELSE numberLoop(input, pos + 1, Append(sb, At(input, pos)), decimalPlaces + 1)
      ELSE numberLoop(input, pos + 1, Append(sb, At(input, pos)), decimalPlaces)
    ELSE IF At(input, pos) = "." THEN
      IF decimalPlaces # -1
        THEN [pos |-> pos, sb |-> sb, decimalPlaces |-> decimalPlaces, err |-> ErrNone]
      ELSE numberLoop(input, pos + 1, sb, 0)
    ELSE [pos |-> pos, sb |-> sb, decimalPlaces |-> decimalPlaces, err |-> ErrNone]
  ELSE [pos |-> pos, sb |-> sb, decimalPlaces |-> decimalPlaces, err |-> ErrNone]

\* the switch on decimalPlaces that ends parseNumber; n is sign * n
numberValue(n, decimalPlaces, pos) ==
  IF decimalPlaces = -1 THEN R(<<Integer(n)>>, pos, ErrNone)
  ELSE IF decimalPlaces = 1 THEN R(<<Decimal(MulPow10(n, 2))>>, pos, ErrNone)
  ELSE IF decimalPlaces = 2 THEN R(<<Decimal(MulPow10(n, 1))>>, pos, ErrNone)
  ELSE IF decimalPlaces = 3 THEN R(<<Decimal(n)>>, pos, ErrNone)
  ELSE R(<<>>, pos, ErrUnrecognized)

\* parseNumber after its loop l
numberAfterLoop(sign, l) ==
  IF l.err # ErrNone THEN R(<<>>, l.pos, l.err)
  ELSE numberValue(MulSign64(sign, ParseInt(l.sb)), l.decimalPlaces, l.pos)

\* parseNumber after the sign
numberAfterSign(input, sign, pos) ==
  IF pos = len(input) THEN R(<<>>, pos, ErrUnexpectedEOL)
  ELSE IF ~isDigit(At(input, pos)) THEN R(<<>>, pos, ErrUnrecognized)
  ELSE numberAfterLoop(sign, numberLoop(input, pos, <<>>, -1))

parseNumber(input, pos) ==
  IF pos >= len(input) THEN R(<<>>, pos, ErrPanic)
  ELSE IF At(input, pos) # "-" /\ ~isDigit(At(input, pos)) THEN R(<<>>, pos, ErrUnrecognized)
  ELSE IF At(input, pos) = "-" THEN numberAfterSign(input, -1, pos + 1)
  ELSE numberAfterSign(input, 1, pos)

\* the for loop of parseString
RECURSIVE stringLoop(_, _, _)
stringLoop(input, pos, sb) ==
  IF pos < len(input) /\ At(input, pos) # "\"" THEN
    IF At(input, pos) = "\\" THEN
      IF pos + 1 = len(input) THEN [pos |-> pos + 1, sb |-> sb, err |-> ErrUnexpectedEOL]
      ELSE IF At(input, pos + 1) # "\"" /\ At(input, pos + 1) # "\\"
        THEN [pos |-> pos + 1, sb |-> sb, err |-> ErrUnrecognized]
      ELSE IF ~isPrint(At(input, pos + 1))
        THEN [pos |-> pos + 1, sb |-> sb, err |-> ErrUnrecognized]
      ELSE stringLoop(input, pos + 2, sb \o <<At(input, pos), At(input, pos + 1)>>)
    ELSE IF ~isPrint(At(input, pos)) THEN [pos |-> pos, sb |-> sb, err |-> ErrUnrecognized]
    ELSE stringLoop(input, pos + 1, Append(sb, At(input, pos)))
  ELSE [pos |-> pos, sb |-> sb, err |-> ErrNone]

\* parseString after its loop l
stringAfterLoop(input, l) ==
  IF l.err # ErrNone THEN R(<<>>, l.pos, l.err)
  ELSE IF l.pos = len(input) THEN R(<<>>, l.pos, ErrUnexpectedEOL)
  ELSE R(<<String(Unquote(Append(l.sb, At(input, l.pos))).s)>>, l.pos + 1, ErrNone)

parseString(input, pos) ==
  IF pos >= len(input) THEN R(<<>>, pos, ErrPanic)
  ELSE IF At(input, pos) # "\"" THEN R(<<>>, pos, ErrUnrecognized)
  ELSE stringAfterLoop(input, stringLoop(input, pos + 1, <<At(input, pos)>>))

\* the for loop of parseToken
RECURSIVE tokenLoop(_, _, _)
tokenLoop(input, pos, sb) ==
  IF pos < len(input) /\ isTokenChar(At(input, pos))
  THEN tokenLoop(input, pos + 1, Append(sb, At(input, pos)))
  ELSE [pos |-> pos, sb |-> sb]

tokenAfterLoop(l) == R(<<Token(l.sb)>>, l.pos, ErrNone)

parseToken(input, pos) ==
  IF pos >= len(input) THEN R(<<>>, pos, ErrPanic)
  ELSE IF At(input, pos) # "*" /\ ~isAlpha(At(input, pos)) THEN R(<<>>, pos, ErrUnrecognized)
  ELSE tokenAfterLoop(tokenLoop(input, pos, <<>>))

\* the for loop of parseByteSeq
RECURSIVE byteSeqLoop(_, _, _)
byteSeqLoop(input, pos, sb) ==
  IF pos < len(input) /\ At(input, pos) # ":" THEN
    IF ~isBase64Char(At(input, pos)) THEN [pos |-> pos, sb |-> sb, err |-> ErrUnrecognized]
    ELSE byteSeqLoop(input, pos + 1, Append(sb, At(input, pos)))
  ELSE [pos |-> pos, sb |-> sb, err |-> ErrNone]

\* parseByteSeq after its loop l
byteSeqAfterLoop(input, l) ==
  IF l.err # ErrNone THEN R(<<>>, l.pos, l.err)
  ELSE IF l.pos = len(input) THEN R(<<>>, l.pos, ErrUnexpectedEOL)
  ELSE R(<<ByteSeq(DecodeString(l.sb).bytes)>>, l.pos + 1, ErrNone)

parseByteSeq(input, pos) ==
  IF pos >= len(input) THEN R(<<>>, pos, ErrPanic)
  ELSE IF At(input, pos) # ":" THEN R(<<>>, pos, ErrUnrecognized)
  ELSE byteSeqAfterLoop(input, byteSeqLoop(input, pos + 1, <<>>))

parseBool(input, pos) ==
  IF pos >= len(input) THEN R(<<>>, pos, ErrPanic)
  ELSE IF At(input, pos) # "?" THEN R(<<>>, pos, ErrUnrecognized)
  ELSE IF pos + 1 = len(input) THEN R(<<>>, pos + 1, ErrUnexpectedEOL)
  ELSE IF At(input, pos + 1) = "0" THEN R(<<Bool(FALSE)>>, pos + 2, ErrNone)
  ELSE IF At(input, pos + 1) = "1" THEN R(<<Bool(TRUE)>>, pos + 2, ErrNone)
  ELSE R(<<>>, pos + 1, ErrUnrecognized)

\* bareItemParsers is tried in order; the first condition that holds decides
bareItemParsers(input, pos) ==
  IF At(input, pos) = "-" \/ isDigit(At(input, pos)) THEN parseNumber(input, pos)
  ELSE IF At(input, pos) = "\"" THEN parseString(input, pos)
  ELSE IF At(input, pos) = "*" \/ isAlpha(At(input, pos)) THEN parseToken(input, pos)
  ELSE IF At(input, pos) = ":" THEN parseByteSeq(input, pos)
  ELSE IF At(input, pos) = "?" THEN parseBool(input, pos)
  ELSE R(<<>>, pos, ErrUnrecognized)

\* parseBareItem after skipSpaces
bareItemAfterSpaces(input, pos) ==
  IF pos >= len(input) THEN R(<<>>, pos, ErrUnexpectedEOL)
  ELSE bareItemParsers(input, pos)

parseBareItem(input, pos) == bareItemAfterSpaces(input, skipSpaces(input, pos))

\* the for loop of parseKey
RECURSIVE keyLoop(_, _, _)
keyLoop(input, pos, sb) ==
  IF pos < len(input) /\ isKeyChar(At(input, pos))
  THEN keyLoop(input, pos + 1, Append(sb, At(input, pos)))
  ELSE [pos |-> pos, sb |-> sb]

keyAfterLoop(l) == R(l.sb, l.pos, ErrNone)

\* keyAfterSpaces without the test of the first character of the key
keyAfterSpacesMutNoFirstTest(input, pos) ==
  IF pos >= len(input) THEN R(<<>>, pos, ErrUnexpectedEOL)
  ELSE keyAfterLoop(keyLoop(input, pos, <<>>))

\* parseKey after skipSpaces
keyAfterSpaces(input, pos) ==
  IF pos >= len(input) THEN R(<<>>, pos, ErrUnexpectedEOL)
  ELSE IF At(input, pos) # "*" /\ ~isLower(At(input, pos)) THEN R(<<>>, pos, ErrUnrecognized)
  ELSE keyAfterLoop(keyLoop(input, pos, <<>>))

\* the value is the key, a string
parseKey(input, pos) == keyAfterSpaces(input, skipSpaces(input, pos))

\* The for loop of parseParams; the value is the ParamList, nil on error.
\* One iteration is paramsLoop (skipSpaces), paramsAfterSpaces (the test
\* for ';' and parseKey), paramsAfterKey (the optional value) and
\* paramsAfterValue (Add).
RECURSIVE paramsLoop(_, _, _)
RECURSIVE paramsAfterSpaces(_, _, _)
RECURSIVE paramsAfterKey(_, _, _)
RECURSIVE paramsAfterValue(_, _, _, _)

paramsAfterValue(input, params, key, v) ==
  IF v.err # ErrNone THEN R(<<>>, v.pos, v.err)
  ELSE paramsLoop(input, v.pos, ParamListAdd(params, key, v.val[1]))

paramsAfterKey(input, params, k) ==
  IF k.err # ErrNone THEN R(<<>>, k.pos, k.err)
  ELSE IF k.pos < len(input) /\ At(input, k.pos) = "="
    THEN paramsAfterValue(input, params, k.val, parseBareItem(input, k.pos + 1))
  ELSE paramsLoop(input, k.pos, ParamListAdd(params, k.val, Bool(TRUE)))

paramsAfterSpaces(input, pos, params) ==
  IF pos >= len(input) \/ At(input, pos) # ";" THEN R(params, pos, ErrNone)
  ELSE paramsAfterKey(input, params, parseKey(input, pos + 1))

paramsLoop(input, pos, params) == paramsAfterSpaces(input, skipSpaces(input, pos), params)

parseParams(input, pos) == paramsLoop(input, pos, <<>>)

\* parseItem after parseParams
itemAfterParams(b, p) ==
  IF p.err # ErrNone THEN R(<<>>, p.pos, p.err)
  ELSE R(<<Item(b.val[1], p.val)>>, p.pos, ErrNone)

\* parseItem after parseBareItem
itemAfterBare(input, b) ==
  IF b.err # ErrNone THEN R(<<>>, b.pos, b.err)
  ELSE itemAfterParams(b, parseParams(input, b.pos))

parseItem(input, pos) == itemAfterBare(input, parseBareItem(input, pos))

\* The for loop of parseInnerList.  starts records the value of pos at each
\* call of parseItem, which the function itself does not keep.
RECURSIVE innerListLoop(_, _, _, _)
RECURSIVE innerListAfterSpaces(_, _, _, _)
RECURSIVE innerListAfterItem(_, _, _, _, _)

innerListAfterItem(input, pos, items, starts, it) ==
  IF it.err # ErrNone
    THEN [items |-> items, starts |-> starts, pos |-> it.pos, err |-> it.err]
  ELSE innerListLoop(input, it.pos, Append(items, it.val[1]), Append(starts, pos))

\* innerListAfterSpaces that takes the end of the input for a ')'
innerListAfterSpacesMutCloseAtEnd(input, pos, items, starts) ==
  IF pos >= len(input)
    THEN [items |-> items, starts |-> starts, pos |-> pos, err |-> ErrNone]
  ELSE IF At(input, pos) = ")"
    THEN [items |-> items, starts |-> starts, pos |-> pos + 1, err |-> ErrNone]
  ELSE innerListAfterItem(input, pos, items, starts, parseItem(input, pos))

innerListAfterSpaces(input, pos, items, starts) ==
  IF pos >= len(input)
    THEN [items |-> items, starts |-> starts, pos |-> pos, err |-> ErrUnexpectedEOL]
  ELSE IF At(input, pos) = ")"
    THEN [items |-> items, starts |-> starts, pos |-> pos + 1, err |-> ErrNone]
  ELSE innerListAfterItem(input, pos, items, starts, parseItem(input, pos))

innerListLoop(input, pos, items, starts) ==
  innerListAfterSpaces(input, skipSpaces(input, pos), items, starts)

\* parseInnerList after parseParams
innerListAfterParams(l, p) ==
  IF p.err # ErrNone THEN R(<<>>, p.pos, p.err)
  ELSE R(<<InnerList(l.items, p.val)>>, p.pos, ErrNone)

\* parseInnerList after its loop l
innerListAfterLoop(input, l) ==
  IF l.err # ErrNone THEN R(<<>>, l.pos, l.err)
  ELSE innerListAfterParams(l, parseParams(input, l.pos))

parseInnerList(input, pos) ==
  IF pos >= len(input) THEN R(<<>>, pos, ErrUnexpectedEOL)
  ELSE IF At(input, pos) # "(" THEN R(<<>>, pos, ErrUnrecognized)
  ELSE innerListAfterLoop(input, innerListLoop(input, pos + 1, <<>>, <<>>))

\* parseMember after skipSpaces
memberAfterSpaces(input, pos) ==
  IF pos >= len(input) THEN R(<<>>, pos, ErrUnexpectedEOL)
  ELSE IF At(input, pos) = "(" THEN parseInnerList(input, pos)
  ELSE parseItem(input, pos)

parseMember(input, pos) == memberAfterSpaces(input, skipSpaces(input, pos))

\* parsePair after parseMember
pairAfterMember(key, m) ==
  IF m.err # ErrNone THEN R(<<>>, m.pos, m.err)
  ELSE R(<<Pair(key, m.val[1])>>, m.pos, ErrNone)

\* parsePair after parseParams
pairAfterParams(key, p) ==
  IF p.err # ErrNone THEN R(<<>>, p.pos, p.err)
  ELSE R(<<Pair(key, Item(Bool(TRUE), p.val))>>, p.pos, ErrNone)

\* parsePair after parseKey
pairAfterKey(input, k) ==
  IF k.err # ErrNone THEN R(<<>>, k.pos, k.err)
  ELSE IF k.pos < len(input) /\ At(input, k.pos) = "="
    THEN pairAfterMember(k.val, parseMember(input, k.pos + 1))
  ELSE pairAfterParams(k.val, parseParams(input, k.pos))

parsePair(input, pos) == pairAfterKey(input, parseKey(input, pos))

\* Entry points.  They return the value and the error; pos is the local
\* cursor when the function returns.

\* the for loop of ParseDictLine
RECURSIVE dictLoop(_, _, _)
RECURSIVE dictAfterPair(_, _, _)
RECURSIVE dictAfterSpaces(_, _, _)

dictAfterSpaces(input, pos, dict) ==
  IF pos >= len(input) \/ At(input, pos) # "," THEN R(dict, pos, ErrNone)
  ELSE dictLoop(input, pos + 1, dict)

dictAfterPair(input, dict, pair) ==
  IF pair.err # ErrNone THEN R(<<>>, pair.pos, pair.err)
  ELSE dictAfterSpaces(input, skipSpaces(input, pair.pos),
                       DictAdd(dict, pair.val[1].Key, pair.val[1].Value))

dictLoop(input, pos, dict) == dictAfterPair(input, dict, parsePair(input, pos))

\* ParseDictLine after skipSpaces
dictLineAfterSpaces(input, pos) ==
  IF pos >= len(input) THEN R(<<>>, pos, ErrNone)
  ELSE dictLoop(input, pos, <<>>)

ParseDictLine(header) == dictLineAfterSpaces(header, skipSpaces(header, 0))

\* the for loop of ParseListLine
RECURSIVE listLoop(_, _, _)
RECURSIVE listAfterMember(_, _, _)
RECURSIVE listAfterSpaces(_, _, _)

\* listAfterSpaces that rejects what follows the members, as ParseItemLine does
listAfterSpacesMutRejectRest(input, pos, list) ==
  IF pos >= len(input) THEN R(list, pos, ErrNone)
  ELSE IF At(input, pos) # "," THEN R(<<>>, pos, ErrUnrecognized)
  ELSE listLoop(input, pos + 1, list)

listAfterSpaces(input, pos, list) ==
  IF pos >= len(input) \/ At(input, pos) # "," THEN R(list, pos, ErrNone)
  ELSE listLoop(input, pos + 1, list)

listAfterMember(input, list, member) ==
  IF member.err # ErrNone THEN R(<<>>, member.pos, member.err)
  ELSE listAfterSpaces(input, skipSpaces(input, member.pos), Append(list, member.val[1]))

listLoop(input, pos, list) == listAfterMember(input, list, parseMember(input, pos))

\* ParseListLine after skipSpaces
listLineAfterSpaces(input, pos) ==
  IF pos >= len(input) THEN R(<<>>, pos, ErrNone)
  ELSE listLoop(input, pos, <<>>)

ParseListLine(header) == listLineAfterSpaces(header, skipSpaces(header, 0))

\* itemLineAfterSpaces that ignores what follows the item, as ParseListLine does
itemLineAfterSpacesMutIgnoreRest(input, it, pos) == R(it.val, pos, ErrNone)

\* ParseItemLine after skipSpaces
itemLineAfterSpaces(input, it, pos) ==
  IF pos < len(input) THEN R(<<>>, pos, ErrUnrecognized)
  ELSE R(it.val, pos, ErrNone)

\* ParseItemLine after parseItem
itemLineAfterItem(input, it) ==
  IF it.err # ErrNone THEN R(<<>>, it.pos, it.err)
  ELSE itemLineAfterSpaces(input, it, skipSpaces(input, it.pos))

ParseItemLine(header) == itemLineAfterItem(header, parseItem(header, 0))

\* ------------------------------------------------------------------------
\* State
\* ------------------------------------------------------------------------
VARIABLES
  input,    \* the text handed to the parser
  stage,    \* "init", "parsed", "built", "encoded", "reparsed", "added"
  fn,       \* the function applied to input
  start,    \* the position the sub-parser was started at
  out,      \* what the function returned
  tree,     \* the value tree that is encoded
  enc,      \* the text returned by Encode
  out2,     \* what parsing enc returned
  d,        \* a Dict under construction
  pl,       \* a ParamList under construction
  hist,     \* the Add calls so far: records of container, key, value
  prev      \* the containers before the last Add

vars == <<input, stage, fn, start, out, tree, enc, out2, d, pl, hist, prev>>

\* ------------------------------------------------------------------------
\* Bounds and input sets
\* ------------------------------------------------------------------------
\* the number of fragments an input text is made of
MaxFrags == 3

\* the pieces of text the inputs of the line parsers are made of
Frags ==
  { <<"1">>,
    <<"-">>,
    <<"1", ".", "5", "0">>,
    <<"a">>,
    <<"b">>,
    <<"=">>,
    <<";">>,
    <<",">>,
    <<" ">>,
    <<"(">>,
    <<")">>,
    <<"?", "1">>,
    <<"\"", "a", "\\", "\"", "\"">>,
    <<":", "Y", "R", "=", "=", ":">>,
    <<"@">>,
    <<"\"">>,
    <<".">> }

RECURSIVE FragStrings(_, _)
FragStrings(F, n) ==
  IF n = 0 THEN {<<>>}
  ELSE LET S == FragStrings(F, n - 1) IN S \cup {s \o f : s \in S, f \in F}

\* the texts of the examples of the package and of the scenarios
Examples ==
  { <<"e", "n", "=", "\"", "A", "p", "p", "l", "e", "p", "i", "e", "\"", ",", " ", "d", "a", "=", ":", "w", "4", "Z", "i", "b", "G", "V", "0", "w", "6", "Z", "y", "d", "G", "U", "=", ":">>,
    <<"a", "=", "?", "0", ",", " ", "b", ",", " ", "c", ";", " ", "f", "o", "o", "=", "b", "a", "r">>,
    <<"r", "a", "t", "i", "n", "g", "=", "1", ".", "5", ",", " ", "f", "e", "e", "l", "i", "n", "g", "s", "=", "(", "j", "o", "y", " ", "s", "a", "d", "n", "e", "s", "s", ")">>,
    <<"a", "=", "(", "1", " ", "2", ")", ",", " ", "b", "=", "3", ",", " ", "c", "=", "4", ";", "a", "a", "=", "b", "b", ",", " ", "d", "=", "(", "5", " ", "6", ")", ";", "v", "a", "l", "i", "d">>,
    <<"s", "u", "g", "a", "r", ",", " ", "t", "e", "a", ",", " ", "r", "u", "m">>,
    <<"5", ";", " ", "f", "o", "o", "=", "b", "a", "r">>,
    <<"4", ".", "5">>,
    <<"\"", "h", "e", "l", "l", "o", " ", "w", "o", "r", "l", "d", "\"">>,
    <<"f", "o", "o", "1", "2", "3", "/", "4", "5", "6">>,
    <<"5", " ", "g", "a", "r", "b", "a", "g", "e">>,
    <<"1", "2", "3", "4", "5", "6", "7", "8", "9", "0", "1", "2", "3", "4", "5", "6">>,
    <<"\"", "a", "b", "c", "\\">>,
    <<"a", ",", " ", "b", ",">>,
    <<"f", "o", "o", "=", "1", ",", " ", "b", "a", "r", "=", "2">>,
    <<"s", "u", "g", "a", "r", ",", " ", "t", "e", "a", " ", "@", " ", "r", "u", "m">>,
    <<"5", ";", "f", "o", "o", " ", " ">> }

LineInputs == FragStrings(Frags, MaxFrags) \cup Examples

NoResult == R(<<>>, 0, ErrNone)

InitOn(S) ==
  /\ input \in S
  /\ stage = "init"
  /\ fn = "none"
  /\ start = 0
  /\ out = NoResult
  /\ tree = <<>>
  /\ enc = <<>>
  /\ out2 = NoResult
  /\ d = <<>>
  /\ pl = <<>>
  /\ hist = <<>>
  /\ prev = [d |-> <<>>, pl |-> <<>>]

\* ------------------------------------------------------------------------
\* Line parsers, Encode, and parsing the encoded text again
\* ------------------------------------------------------------------------
\* function f, started at p, returned r
Call(f, p, r) ==
  /\ fn' = f
  /\ start' = p
  /\ out' = r
  /\ tree' = r.val
  /\ stage' = "parsed"
  /\ UNCHANGED <<input, enc, out2, d, pl, hist, prev>>

DoParseItemLine ==
  /\ stage = "init"
  /\ Call("ParseItemLine", 0, ParseItemLine(input))

DoParseListLine ==
  /\ stage = "init"
  /\ Call("ParseListLine", 0, ParseListLine(input))

DoParseDictLine ==
  /\ stage = "init"
  /\ Call("ParseDictLine", 0, ParseDictLine(input))


\* Encode is called on tree, the value a parser returned without an error
\* or the value that was built
Encoded(e) ==
  /\ stage \in {"parsed", "built"}
  /\ out.err = ErrNone
  /\ enc' = e
  /\ stage' = "encoded"
  /\ UNCHANGED <<input, fn, start, out, tree, out2, d, pl, hist, prev>>

DoItemEncode ==
  /\ fn = "ParseItemLine"
  /\ Encoded(ItemEncode(tree[1]))

DoListEncode ==
  /\ fn = "ParseListLine"
  /\ Encoded(ListEncode(tree))

DoDictEncode ==
  /\ fn = "ParseDictLine"
  /\ Encoded(DictEncode(tree))

Reparsed(r) ==
  /\ stage = "encoded"
  /\ out2' = r
  /\ stage' = "reparsed"
  /\ UNCHANGED <<input, fn, start, out, tree, enc, d, pl, hist, prev>>

DoReparseItem == fn = "ParseItemLine" /\ Reparsed(ParseItemLine(enc))
DoReparseList == fn = "ParseListLine" /\ Reparsed(ParseListLine(enc))
DoReparseDict == fn = "ParseDictLine" /\ Reparsed(ParseDictLine(enc))

\* ------------------------------------------------------------------------
\* Values built with the constructors and Add
\* ------------------------------------------------------------------------
\* the most members of a built List, Dict or InnerList, and the most
\* parameters of a built ParamList
MaxMembers == 2

SeqsUpTo(S, n) == UNION {[1..m -> S] : m \in 0..n}

Nines(n) == [i \in 1..n |-> 9]

BuildIntegers ==
  { ToInt64(0), ToInt64(42), ToInt64(-7),
    Mk64(FALSE, Nines(MaxDigits)), Mk64(TRUE, Nines(MaxDigits)) }
BuildDecimals ==
  { ToInt64(0), ToInt64(1000), ToInt64(1500), ToInt64(1050), ToInt64(-500),
    ToInt64(5), ToInt64(-1001), ToInt64(120),
    Mk64(FALSE, Nines(MaxDigits)), Mk64(TRUE, Nines(MaxDigits)) }
BuildStrings == { <<>>, <<"a">>, <<"a", " ", "\"", "\\">>, <<"~", "!", "1">> }
BuildTokens == { <<"a">>, <<"*", "/", ":">>, <<"B", "#", "~", "9">> }
BuildByteSeqs == { <<>>, <<97>>, <<0, 255>>, <<1, 2, 3>>, <<255, 254, 253, 252>> }
BuildKeys == { <<"a">>, <<"*", "k", "-", "1">>, <<"b", "_", ".">> }

BuildBareItems ==
  {Integer(n) : n \in BuildIntegers} \cup {Decimal(n) : n \in BuildDecimals}
    \cup {String(x) : x \in BuildStrings} \cup {Token(x) : x \in BuildTokens}
    \cup {ByteSeq(y) : y \in BuildByteSeqs} \cup {Bool(b) : b \in BOOLEAN}

\* the values of the parameters and the bare items of the members
ParamBareItems ==
  { Bool(TRUE), Bool(FALSE), Integer(ToInt64(-7)), Decimal(ToInt64(1050)),
    String(<<"a", " ", "\"", "\\">>), Token(<<"*", "/", ":">>), ByteSeq(<<0, 255>>) }

\* l.Add(ps[1].Key, ps[1].Value).Add(ps[2].Key, ps[2].Value) ...
RECURSIVE ParamListOf(_)
ParamListOf(ps) ==
  IF ps = <<>> THEN <<>>
  ELSE ParamListAdd(ParamListOf(SubSeq(ps, 1, Len(ps) - 1)), ps[Len(ps)].Key, ps[Len(ps)].Value)

RECURSIVE DictOf(_)
DictOf(ps) ==
  IF ps = <<>> THEN <<>>
  ELSE DictAdd(DictOf(SubSeq(ps, 1, Len(ps) - 1)), ps[Len(ps)].Key, ps[Len(ps)].Value)

BuildParamLists ==
  {ParamListOf(ps) :
     ps \in SeqsUpTo({Param(k, v) : k \in {<<"a">>, <<"*", "k", "-", "1">>},
                                    v \in ParamBareItems}, MaxMembers)}

\* the parameter lists of the members of a List, Dict or InnerList
MemberParamLists ==
  { <<>>, <<Param(<<"a">>, Bool(TRUE))>>,
    <<Param(<<"*", "k", "-", "1">>, Decimal(ToInt64(1050))), Param(<<"a">>, Token(<<"*", "/", ":">>))>> }

BuildItems ==
  {Item(b, p) : b \in BuildBareItems, p \in MemberParamLists}
    \cup {Item(b, p) : b \in ParamBareItems, p \in BuildParamLists}

InnerItems == {Item(b, p) : b \in ParamBareItems, p \in {<<>>, <<Param(<<"a">>, Bool(TRUE))>>}}

BuildInnerLists ==
  {InnerList(items, p) : items \in SeqsUpTo(InnerItems, MaxMembers), p \in MemberParamLists}

BuildMembers ==
  { Item(Bool(TRUE), <<>>),
    Item(Bool(TRUE), <<Param(<<"a">>, Bool(FALSE))>>),
    Item(Bool(FALSE), <<>>),
    Item(Decimal(ToInt64(1050)), <<Param(<<"a">>, Bool(TRUE))>>),
    Item(String(<<"a", " ", "\"", "\\">>), <<>>),
    Item(Token(<<"*", "/", ":">>), <<Param(<<"b", "_", ".">>, Integer(ToInt64(-7)))>>),
    Item(ByteSeq(<<0, 255>>), <<>>),
    InnerList(<<>>, <<>>),
    InnerList(<<Item(Integer(ToInt64(42)), <<>>)>>, <<Param(<<"a">>, Bool(TRUE))>>),
    InnerList(<<Item(Bool(TRUE), <<Param(<<"a">>, Bool(FALSE))>>), Item(Token(<<"a">>), <<>>)>>, <<>>) }

BuildPairs == {Pair(k, m) : k \in {<<"a">>, <<"*", "k", "-", "1">>}, m \in BuildMembers}

\* a value is built where no text was given
CanBuild == stage = "init" /\ input = <<>>

Built(f, t) ==
  /\ fn' = f
  /\ tree' = t
  /\ stage' = "built"
  /\ UNCHANGED <<input, start, out, enc, out2, d, pl, hist, prev>>

DoBuildItem ==
  /\ CanBuild
  /\ \E i \in BuildItems : Built("ParseItemLine", <<i>>)

DoBuildInnerList ==
  /\ CanBuild
  /\ \E l \in BuildInnerLists : Built("ParseListLine", <<l>>)

DoBuildList ==
  /\ CanBuild
  /\ \E l \in SeqsUpTo(BuildMembers, MaxMembers) : Built("ParseListLine", l)

DoBuildDict ==
  /\ CanBuild
  /\ \E ps \in SeqsUpTo(BuildPairs, MaxMembers) : Built("ParseDictLine", DictOf(ps))

LineNext ==
  \/ DoParseItemLine
  \/ DoParseListLine
  \/ DoParseDictLine
  \/ DoBuildItem
  \/ DoBuildInnerList
  \/ DoBuildList
  \/ DoBuildDict
  \/ DoItemEncode
  \/ DoListEncode
  \/ DoDictEncode
  \/ DoReparseItem
  \/ DoReparseList
  \/ DoReparseDict

SpecLine == InitOn(LineInputs) /\ [][LineNext]_vars

Prefix(s, i) == SubSeq(s, 1, i)

\* C2: round trip.  The text Encode returns for a valid value tree, one a
\* line parser returned or one built from values of the grammar, is parsed
\* by the matching line parser without an error into a tree equal to the
\* one encoded, and Encode of that tree is the same text.
C2_RoundTrip ==
  stage = "reparsed" =>
    /\ out2.err = ErrNone
    /\ out2.val = tree
    /\ out2.pos = len(enc)
    /\ fn = "ParseItemLine" => ItemEncode(out2.val[1]) = enc
    /\ fn = "ParseListLine" => ListEncode(out2.val) = enc
    /\ fn = "ParseDictLine" => DictEncode(out2.val) = enc

\* the dictionary of the example, whose Encode differs from no character of
\* the text, was parsed, encoded and parsed again
C2_Witness ==
  /\ stage = "reparsed"
  /\ fn = "ParseDictLine"
  /\ Len(tree) = 4
  /\ enc = input
  /\ out2.val = out.val

\* a built item with a Decimal went round
C2_WitnessBuilt ==
  /\ stage = "reparsed"
  /\ input = <<>>
  /\ fn = "ParseItemLine"
  /\ tree[1].Bare = Decimal(ToInt64(-1001))
  /\ Len(tree[1].Params) = 2

\* C3: ParseItemLine on an item followed by optional spaces and then a
\* character that is neither a space nor the ';' of a parameter returns no
\* item and ErrUnrecognized; when only spaces follow the item it returns the
\* item.  The first conjunct takes the item to be a prefix of the input that
\* ParseItemLine accepts and that a space follows; the other two take it to be
\* what parseItem consumes.
C3_ItemLineRejectsTrailing ==
  (stage = "parsed" /\ fn = "ParseItemLine") =>
    /\ \A i \in 1..len(input) :
         ( /\ input[i] # " "
           /\ ParseItemLine(Prefix(input, i)).err = ErrNone
           /\ skipSpaces(input, i) > i
           /\ skipSpaces(input, i) < len(input)
           /\ At(input, skipSpaces(input, i)) # ";" )
         => (out.err = ErrUnrecognized /\ out.val = <<>>)
    /\ \A i \in 1..len(input) :
         ( /\ input[i] # " "
           /\ ParseItemLine(Prefix(input, i)).err = ErrNone
           /\ skipSpaces(input, i) = len(input) )
         => (out.err = ErrNone /\ out.val = ParseItemLine(Prefix(input, i)).val)
    /\ (parseItem(input, 0).err = ErrNone /\ parseItem(input, 0).pos < len(input))
         => (out.err = ErrUnrecognized /\ out.val = <<>>)
    /\ (parseItem(input, 0).err = ErrNone /\ parseItem(input, 0).pos = len(input))
         => (out.err = ErrNone /\ out.val = parseItem(input, 0).val)

\* "5 garbage" was rejected
C3_Witness ==
  /\ stage = "parsed"
  /\ fn = "ParseItemLine"
  /\ input = <<"5", " ", "g", "a", "r", "b", "a", "g", "e">>
  /\ out.err = ErrUnrecognized
  /\ out.val = <<>>

LineParse(f, s) == IF f = "ParseListLine" THEN ParseListLine(s) ELSE ParseDictLine(s)

\* the 1-based index of the last character of s that is not a space, or 0
LastNonSpace(s) ==
  IF \A i \in 1..Len(s) : s[i] = " " THEN 0
  ELSE CHOOSE i \in 1..Len(s) : s[i] # " " /\ \A j \in (i + 1)..Len(s) : s[j] = " "

\* C9: ParseListLine and ParseDictLine stop where, after a member or pair
\* and optional spaces, the next character is not ',': they return the
\* members or pairs parsed so far and a nil error, whatever follows; and a
\* ',' after a member or pair that only spaces or nothing follow makes them
\* return ErrUnexpectedEOL.
C9_LineStopsAtNonComma ==
  (stage = "parsed" /\ fn \in {"ParseListLine", "ParseDictLine"}) =>
    /\ (out.err = ErrNone /\ out.pos < len(input)) =>
         /\ At(input, out.pos) # ","
         /\ out.val # <<>>
         /\ LineParse(fn, Prefix(input, out.pos)).err = ErrNone
         /\ LineParse(fn, Prefix(input, out.pos)).val = out.val
    /\ \A i \in 1..len(input) :
         ( /\ input[i] # " "
           /\ LineParse(fn, Prefix(input, i)).err = ErrNone
           /\ skipSpaces(input, i) > i
           /\ skipSpaces(input, i) < len(input)
           /\ At(input, skipSpaces(input, i)) \notin {",", ";"} )
         => (out.err = ErrNone /\ out.val = LineParse(fn, Prefix(input, i)).val)
    /\ ( /\ LastNonSpace(input) > 1
          /\ input[LastNonSpace(input)] = ","
          /\ LineParse(fn, Prefix(input, LastNonSpace(input) - 1)).err = ErrNone
          /\ LineParse(fn, Prefix(input, LastNonSpace(input) - 1)).pos = LastNonSpace(input) - 1
          /\ LineParse(fn, Prefix(input, LastNonSpace(input) - 1)).val # <<>> )
         => (out.err = ErrUnexpectedEOL /\ out.val = <<>>)

\* a list line returned its two members and ignored what follows them
C9_Witness ==
  /\ stage = "parsed"
  /\ fn = "ParseListLine"
  /\ out.err = ErrNone
  /\ Len(out.val) = 2
  /\ out.pos < len(input)
  /\ At(input, out.pos) = "@"

\* a dictionary line that ends with a ',' was rejected
C9_WitnessComma ==
  /\ stage = "parsed"
  /\ fn = "ParseDictLine"
  /\ input = <<"a", ",", " ", "b", ",">>
  /\ out.err = ErrUnexpectedEOL

\* ------------------------------------------------------------------------
\* Add on a Dict and on a ParamList, and the parsers that call Add
\* ------------------------------------------------------------------------
\* the number of Add calls
MaxAdds == 3

AddKeys == {<<"a">>, <<"b">>, <<"c", "1">>}
AddMembers == {Item(Integer(ToInt64(1)), <<>>), InnerList(<<Item(Token(<<"x">>), <<>>)>>, <<>>)}
AddBareItems == {Integer(ToInt64(2)), Token(<<"y">>)}

Added(c, k, v) ==
  /\ stage \in {"init", "added"}
  /\ Len(hist) < MaxAdds
  /\ hist' = Append(hist, [c |-> c, Key |-> k, Value |-> v])
  /\ prev' = [d |-> d, pl |-> pl]
  /\ stage' = "added"
  /\ UNCHANGED <<input, fn, start, out, tree, enc, out2>>

DoDictAdd ==
  \E k \in AddKeys, v \in AddMembers :
    /\ d' = DictAdd(d, k, v)
    /\ pl' = pl
    /\ Added("Dict", k, v)

DoParamListAdd ==
  \E k \in AddKeys, v \in AddBareItems :
    /\ pl' = ParamListAdd(pl, k, v)
    /\ d' = d
    /\ Added("ParamList", k, v)

\* the Add calls on container c, in order
RECURSIVE CallsOn(_, _)
CallsOn(h, c) ==
  IF h = <<>> THEN <<>>
  ELSE IF Head(h).c = c THEN <<Head(h)>> \o CallsOn(Tail(h), c)
  ELSE CallsOn(Tail(h), c)

\* the text of a dictionary, and of an item with parameters, that names the
\* keys and values of the Add calls in their order
DictTextOf(h) ==
  Join([i \in 1..Len(CallsOn(h, "Dict")) |-> PairEncode(CallsOn(h, "Dict")[i])], <<",", " ">>)
ParamsTextOf(h) ==
  Concat([i \in 1..Len(CallsOn(h, "ParamList")) |->
            <<";">> \o ParamEncode(CallsOn(h, "ParamList")[i])])

DoParseDictText ==
  /\ stage = "added"
  /\ input' = DictTextOf(hist)
  /\ fn' = "ParseDictLine"
  /\ start' = 0
  /\ out' = ParseDictLine(DictTextOf(hist))
  /\ stage' = "parsed"
  /\ UNCHANGED <<tree, enc, out2, d, pl, hist, prev>>

DoParseParamsText ==
  /\ stage = "added"
  /\ input' = ParamsTextOf(hist)
  /\ fn' = "parseParams"
  /\ start' = 0
  /\ out' = parseParams(ParamsTextOf(hist), 0)
  /\ stage' = "parsed"
  /\ UNCHANGED <<tree, enc, out2, d, pl, hist, prev>>

AddNext ==
  \/ DoDictAdd
  \/ DoParamListAdd
  \/ DoParseDictText
  \/ DoParseParamsText

SpecAdd == InitOn({<<>>}) /\ [][AddNext]_vars

\* the keys of a Dict or ParamList, in order
Keys(c) == [i \in 1..Len(c) |-> c[i].Key]
KeySet(c) == {c[i].Key : i \in 1..Len(c)}
Distinct(ks) == \A i, j \in 1..Len(ks) : ks[i] = ks[j] => i = j

\* a sequence of keys without the repetitions of a key after its first
RECURSIVE FirstOccurrences(_, _)
FirstOccurrences(ks, seen) ==
  IF ks = <<>> THEN <<>>
  ELSE IF Head(ks) \in seen THEN FirstOccurrences(Tail(ks), seen)
  ELSE <<Head(ks)>> \o FirstOccurrences(Tail(ks), seen \cup {Head(ks)})

LastAdd == hist[Len(hist)]
\* the container the last Add was called on, before and after the call
Before == IF LastAdd.c = "Dict" THEN prev.d ELSE prev.pl
After == IF LastAdd.c = "Dict" THEN d ELSE pl
GetAfter ==
  IF LastAdd.c = "Dict" THEN DictGet(d, LastAdd.Key) ELSE ParamListGet(pl, LastAdd.Key)

\* C1: Add with a key that is already present keeps the length and the
\* order of the keys and replaces the value of the key, so that Get with the
\* key returns the value just added.
C1_AddReplacesInPlace ==
  (stage = "added" /\ HasKey(Before, LastAdd.Key)) =>
    /\ Len(After) = Len(Before)
    /\ Keys(After) = Keys(Before)
    /\ GetAfter = <<LastAdd.Value>>

\* C8: after any sequence of Add calls from the empty container the keys are
\* pairwise distinct and in the order in which each was first added, the
\* length is the number of distinct keys added, and an Add with a key that
\* is present changes neither the length nor the order of the keys; the
\* Dict of ParseDictLine and the ParamList of parseParams on a text that
\* repeats keys are the same.
C8_KeysUniqueInFirstAddedOrder ==
  /\ Distinct(Keys(d))
  /\ Keys(d) = FirstOccurrences(Keys(CallsOn(hist, "Dict")), {})
  /\ Len(d) = Cardinality(KeySet(CallsOn(hist, "Dict")))
  /\ Distinct(Keys(pl))
  /\ Keys(pl) = FirstOccurrences(Keys(CallsOn(hist, "ParamList")), {})
  /\ Len(pl) = Cardinality(KeySet(CallsOn(hist, "ParamList")))
  /\ (stage = "added" /\ HasKey(Before, LastAdd.Key)) =>
       (Len(After) = Len(Before) /\ Keys(After) = Keys(Before))
  /\ (stage = "parsed" /\ fn = "ParseDictLine") =>
       /\ out.err = ErrNone
       /\ Distinct(Keys(out.val))
       /\ Keys(out.val) = FirstOccurrences(Keys(CallsOn(hist, "Dict")), {})
  /\ (stage = "parsed" /\ fn = "parseParams") =>
       /\ out.err = ErrNone
       /\ Distinct(Keys(out.val))
       /\ Keys(out.val) = FirstOccurrences(Keys(CallsOn(hist, "ParamList")), {})

\* a text with three pairs, two of them with the same key, was parsed
C8_Witness ==
  /\ stage = "parsed"
  /\ fn = "ParseDictLine"
  /\ Len(CallsOn(hist, "Dict")) = 3
  /\ Len(out.val) = 2
  /\ Len(d) = 2

\* ------------------------------------------------------------------------
\* parseNumber on numeric literals
\* ------------------------------------------------------------------------
\* the most digits before and after the decimal point of a literal
MaxIntDigits == 16
MaxFracDigits == 4

\* the digits of a literal repeat one of these patterns
DigitPatterns == {<<"1">>, <<"9">>, <<"0">>, <<"0", "5">>, <<"3", "0">>}

DigitRun(pat, from, n) == [i \in 1..n |-> pat[((from + i - 2) % Len(pat)) + 1]]

\* an optional '-', ni digits, and with dot a '.' and nf digits
Literal(neg, pat, ni, dot, nf) ==
  (IF neg THEN <<"-">> ELSE <<>>) \o DigitRun(pat, 1, ni)
    \o (IF dot THEN <<".">> \o DigitRun(pat, ni + 1, nf) ELSE <<>>)

NumberLiterals ==
  {Literal(neg, pat, ni, dot, IF dot THEN nf ELSE 0) :
     neg \in BOOLEAN, pat \in DigitPatterns, ni \in 1..MaxIntDigits,
     dot \in BOOLEAN, nf \in 0..MaxFracDigits}

DoParseNumber ==
  /\ stage = "init"
  /\ Call("parseNumber", 0, parseNumber(input, 0))

NumNext == DoParseNumber

SpecNum == InitOn(NumberLiterals) /\ [][NumNext]_vars

\* the parts of a literal
LitNeg(lit) == lit[1] = "-"
LitBody(lit) == IF LitNeg(lit) THEN Tail(lit) ELSE lit
LitHasDot(lit) == \E i \in 1..Len(lit) : lit[i] = "."
LitDot(lit) == CHOOSE i \in 1..Len(LitBody(lit)) : LitBody(lit)[i] = "."
LitInt(lit) == IF LitHasDot(lit) THEN SubSeq(LitBody(lit), 1, LitDot(lit) - 1) ELSE LitBody(lit)
LitFrac(lit) ==
  IF LitHasDot(lit) THEN SubSeq(LitBody(lit), LitDot(lit) + 1, Len(LitBody(lit))) ELSE <<>>
DigitsOf(ds) == [i \in 1..Len(ds) |-> DigitOf(ds[i])]

MaxScaled == 1200

ScaledValues == {ToInt64(i) : i \in (0 - MaxScaled)..MaxScaled} \cup {MinInt64, MaxInt64}

InitDec ==
  /\ input = <<>>
  /\ stage = "built"
  /\ fn = "Decimal.Encode"
  /\ start = 0
  /\ out = NoResult
  /\ tree \in {Decimal(x) : x \in ScaledValues}
  /\ enc = <<>>
  /\ out2 = NoResult
  /\ d = <<>>
  /\ pl = <<>>
  /\ hist = <<>>
  /\ prev = [d |-> <<>>, pl |-> <<>>]

DoDecimalEncode ==
  /\ fn = "Decimal.Encode"
  /\ Encoded(DecimalEncode(tree.n))

DecNext == DoDecimalEncode

SpecDec == InitDec /\ [][DecNext]_vars

\* the digits of |x| with zeros in front up to four digits
PadTo4(mag) == IF Len(mag) < 4 THEN Zeros(4 - Len(mag)) \o mag ELSE mag
\* three digits without the zeros at their end, the first digit kept
StripFrac(f) ==
  IF f[3] # 0 THEN f ELSE IF f[2] # 0 THEN SubSeq(f, 1, 2) ELSE SubSeq(f, 1, 1)
DigitText(ds) == [i \in 1..Len(ds) |-> DigitChar(ds[i])]
\* the canonical text of the scaled value x
Canonical(x) ==
  (IF x.neg THEN <<"-">> ELSE <<>>)
    \o DigitText(SubSeq(PadTo4(x.mag), 1, Len(PadTo4(x.mag)) - 3))
    \o <<".">>
    \o DigitText(StripFrac(SubSeq(PadTo4(x.mag), Len(PadTo4(x.mag)) - 2, Len(PadTo4(x.mag)))))

\* C5: Decimal.Encode of every scaled value d is an optional '-', the
\* digits of |d| / 1000, a '.', and |d| mod 1000 as three digits without
\* the zeros at their end, at least one digit kept.
C5_DecimalEncodeCanonical ==
  (stage = "encoded" /\ fn = "Decimal.Encode") => enc = Canonical(tree.n)

\* ------------------------------------------------------------------------
\* The sub-parsers from every position of a text
\* ------------------------------------------------------------------------
\* the most fragments of a text handed to the sub-parsers
MaxSubFrags == 2

SubExamples ==
  { <<"(", "?", "1", "?", "0", ")">>,
    <<"(", "\"", "a", "\"", "\"", "b", "\"", ")">>,
    <<"(", "1", " ", "2", ")">>,
    <<"(", " ", "1", " ", " ", "a", ";", "b", "=", "1", " ", ")", ";", "x">>,
    <<"a", "=", "(", "1", " ", "2", ")", ";", "x", ",", " ", "b">>,
    <<"(", "1">>,
    <<"(", "1", " ">>,
    <<"k", "=">>,
    <<"1", ";", "b", "=">>,
    <<";", "a", ";", " ", "b", "=", ":", "Y", "Q", "=", "=", ":">>,
    <<"\"", "a", "\\">>,
    <<":", "Y", "Q">>,
    <<"?">>,
    <<"-">>,
    <<"1", ".">>,
    <<TAB, "1">> }

SubInputs == FragStrings(Frags, MaxSubFrags) \cup SubExamples \cup Examples

DoParseBareItem ==
  /\ stage = "init"
  /\ \E p \in 0..len(input) : Call("parseBareItem", p, parseBareItem(input, p))

DoParseKey ==
  /\ stage = "init"
  /\ \E p \in 0..len(input) : Call("parseKey", p, parseKey(input, p))

DoParseParams ==
  /\ stage = "init"
  /\ \E p \in 0..len(input) : Call("parseParams", p, parseParams(input, p))

DoParseItem ==
  /\ stage = "init"
  /\ \E p \in 0..len(input) : Call("parseItem", p, parseItem(input, p))

DoParseInnerList ==
  /\ stage = "init"
  /\ \E p \in 0..len(input) : Call("parseInnerList", p, parseInnerList(input, p))

DoParseMember ==
  /\ stage = "init"
  /\ \E p \in 0..len(input) : Call("parseMember", p, parseMember(input, p))

DoParsePair ==
  /\ stage = "init"
  /\ \E p \in 0..len(input) : Call("parsePair", p, parsePair(input, p))

SubNext ==
  \/ DoParseBareItem
  \/ DoParseKey
  \/ DoParseParams
  \/ DoParseItem
  \/ DoParseInnerList
  \/ DoParseMember
  \/ DoParsePair
  \/ DoParseItemLine
  \/ DoParseListLine
  \/ DoParseDictLine

SpecSub == InitOn(SubInputs) /\ [][SubNext]_vars

\* the positions at which the loop of parseInnerList, called at start,
\* called parseItem
ItemStarts == innerListLoop(input, start + 1, <<>>, <<>>).starts

SubParsers ==
  {"parseBareItem", "parseKey", "parseParams", "parseItem", "parseInnerList",
   "parseMember", "parsePair"}

\* C7: parseInnerList accepts a text only if one or more spaces are in
\* front of every item after the first.
C7_InnerItemsSpaceSeparated ==
  (stage = "parsed" /\ fn = "parseInnerList" /\ out.err = ErrNone) =>
    \A i \in 2..Len(ItemStarts) : At(input, ItemStarts[i] - 1) = " "

\* C10: a sub-parser called at p with 0 <= p <= len(input) returns one of
\* nil and the three errors, with a value exactly when the error is nil,
\* and a position q with p <= q <= len(input); q > p when parseBareItem,
\* parseKey, parseItem, parseInnerList or parsePair return no error; the
\* positions at which the loop of parseInnerList calls parseItem increase;
\* the line parsers return one of nil and the three errors.
C10_CursorProgress ==
  stage = "parsed" =>
    /\ out.err \in {ErrNone, ErrUnexpectedEOL, ErrUnrecognized, ErrTooManyDigits}
    /\ out.err # ErrNone => out.val = <<>>
    /\ fn \in SubParsers =>
         /\ start <= out.pos
         /\ out.pos <= len(input)
         /\ (out.err = ErrNone /\ fn \notin {"parseParams", "parseKey"}) => Len(out.val) = 1
         /\ (out.err = ErrNone /\ fn \notin {"parseParams", "parseMember"}) => out.pos > start
    /\ (fn = "parseInnerList" /\ out.err = ErrNone) =>
         /\ Len(ItemStarts) = Len(out.val[1].Items)
         /\ \A i \in 1..Len(ItemStarts) :
              /\ start < ItemStarts[i]
              /\ ItemStarts[i] < out.pos
              /\ i > 1 => ItemStarts[i - 1] < ItemStarts[i]

\* parsePair consumed a key and an inner list of two items from a position
\* inside the text
C10_Witness ==
  /\ stage = "parsed"
  /\ fn = "parsePair"
  /\ start > 0
  /\ out.err = ErrNone
  /\ out.pos > start + 4
  /\ out.val[1].Value.k = "InnerList"
  /\ Len(out.val[1].Value.Items) = 2

\* ------------------------------------------------------------------------
\* The line parsers on texts that end inside a construct
\* ------------------------------------------------------------------------
\* the most fragments after the context of a text
MaxOpenFrags == 3

OpenFrags ==
  { <<"\"">>, <<"\\">>, <<"a">>, <<":">>, <<"=">>, <<"-">>, <<"?">>, <<"(">>, <<")">>,
    <<" ">>, <<"1">> }

\* what is in front of the fragments
EOLContexts ==
  { <<>>,
    <<"1", ",", " ">>,
    <<"k", "=">>,
    <<"k", ",", " ">>,
    <<"1", ";", "k", "=">>,
    <<"k", ";", "j", "=", " ">>,
    <<"(">>,
    <<"k", "=", "(", "1", " ">>,
    <<"1", ";">>,
    <<"k", ";">> }

EOLInputs == {c \o b : c \in EOLContexts, b \in FragStrings(OpenFrags, MaxOpenFrags)}

SpecEOL == InitOn(EOLInputs) /\ [][LineNext]_vars

HasPrefix(s, c) == Len(c) <= Len(s) /\ SubSeq(s, 1, Len(c)) = c
TrimPrefix(s, c) == SubSeq(s, Len(c) + 1, Len(s))

\* s is what follows the opening '"' of a string and has no closing '"':
\* printable characters and the two escapes, or these and a last backslash
RECURSIVE OpenStringBody(_)
OpenStringBody(s) ==
  IF s = <<>> THEN TRUE
  ELSE IF s[1] = "\"" THEN FALSE
  ELSE IF s[1] = "\\"
    THEN Len(s) = 1 \/ (s[2] \in {"\"", "\\"} /\ OpenStringBody(SubSeq(s, 3, Len(s))))
  ELSE s[1] \in {AsciiTable[i] : i \in 1..Len(AsciiTable)} /\ OpenStringBody(Tail(s))

OpenString(s) == s # <<>> /\ s[1] = "\"" /\ OpenStringBody(Tail(s))

OpenByteSeq(s) ==
  /\ s # <<>>
  /\ s[1] = ":"
  /\ \A i \in 2..Len(s) : s[i] \in B64Chars \cup {"="}

OpenBareItem(s) == OpenString(s) \/ OpenByteSeq(s) \/ s = <<"-">> \/ s = <<"?">>

\* f accepts the text with a ')' after it to the end, and the text has
\* no ')': the text ends in an inner list without its ')'
OpenInnerList(f, s) ==
  /\ \A i \in 1..Len(s) : s[i] # ")"
  /\ LineParse(f, s \o <<")">>).err = ErrNone
  /\ LineParse(f, s \o <<")">>).pos = Len(s) + 1

\* a key, a '=' and nothing else
DanglingKey(s) ==
  /\ Len(s) >= 2
  /\ s[Len(s)] = "="
  /\ s[1] \in {"*", "a", "j", "k"}
  /\ \A i \in 1..(Len(s) - 1) : s[i] \in {"*", "a", "j", "k", "1", "-"}

\* the contexts after which f reads a bare item, a key of a pair, and a key
\* of a parameter
BareItemContexts(f) ==
  IF f = "ParseItemLine"
    THEN {<<>>, <<"1", ";", "k", "=">>, <<"k", ";", "j", "=", " ">>}
  ELSE IF f = "ParseListLine"
    THEN {<<>>, <<"1", ",", " ">>, <<"1", ";", "k", "=">>, <<"k", ";", "j", "=", " ">>, <<"(">>}
  ELSE {<<"k", "=">>, <<"k", ";", "j", "=", " ">>, <<"k", "=", "(", "1", " ">>}
PairContexts(f) == IF f = "ParseDictLine" THEN {<<>>, <<"k", ",", " ">>} ELSE {}
ParamKeyContexts(f) ==
  IF f = "ParseDictLine" THEN {<<"k", ";">>} ELSE {<<"1", ";">>, <<"k", ";">>}

\* C6: a line parser returns no value and ErrUnexpectedEOL when the text
\* ends in a string without its closing '"' (also after a backslash), in a
\* byte sequence without its closing ':', in an inner list without its
\* ')', after the '=' of a key of a dictionary or of a parameter, after a
\* '-' and after a '?'.
C6_OpenConstructIsUnexpectedEOL ==
  (stage = "parsed" /\ fn \in {"ParseItemLine", "ParseListLine", "ParseDictLine"}) =>
    /\ \A c \in EOLContexts :
         ( /\ HasPrefix(input, c)
           /\ \/ c \in BareItemContexts(fn) /\ OpenBareItem(TrimPrefix(input, c))
              \/ c \in PairContexts(fn) /\ DanglingKey(TrimPrefix(input, c))
              \/ c \in ParamKeyContexts(fn) /\ DanglingKey(TrimPrefix(input, c)) )
         => (out.err = ErrUnexpectedEOL /\ out.val = <<>>)
    /\ (fn # "ParseItemLine" /\ OpenInnerList(fn, input))
         => (out.err = ErrUnexpectedEOL /\ out.val = <<>>)

\* a list line ended after the backslash of a string of its second member
C6_Witness ==
  /\ stage = "parsed"
  /\ fn = "ParseListLine"
  /\ input = <<"1", ",", " ", "\"", "a", "\\">>
  /\ out.err = ErrUnexpectedEOL
  /\ out.val = <<>>

\* a dictionary line ended in the inner list of a pair
C6_WitnessInnerList ==
  /\ stage = "parsed"
  /\ fn = "ParseDictLine"
  /\ input = <<"k", "=", "(", "1", " ", "a", " ">>
  /\ OpenInnerList(fn, input)
  /\ out.err = ErrUnexpectedEOL
====
